---- MODULE Spec2Model ----
(***************************************************************************)
(* A model of rithmm_calculator.py: the loader (load_raw_data), the record *)
(* normalizer (preprocess_data), the filter pipeline, the metrics and the  *)
(* smart-bet heuristic of one Streamlit script run.                        *)
(*                                                                         *)
(* Cell values are tagged: a number is the exact decimal num / 10^dec, a   *)
(* string is a sequence of one-character strings, NaN/None is Null.        *)
(* win_percentage is the exact fraction wins * 100 / total.  Column dtypes *)
(* are not modelled: a column read with .str holds strings or empty cells, *)
(* a column compared with a number holds numbers or empty cells.  The      *)
(* three sheets share one set of columns.                                  *)
(***************************************************************************)
EXTENDS Integers, Sequences, FiniteSets, TLC

VARIABLES pc, status, schema, sheets, data, query, filtered_data,
          total_bets, total_wins, total_losses, win_percentage,
          is_smart_bet, errors

vars == <<pc, status, schema, sheets, data, query, filtered_data,
          total_bets, total_wins, total_losses, win_percentage,
          is_smart_bet, errors>>

(***************************************************************************)
(* Values                                                                  *)
(***************************************************************************)
Null == [null |-> TRUE]
Str(s) == [str |-> s]
IsNull(v) == DOMAIN v = {"null"}
IsStr(v) == DOMAIN v = {"str"}
IsNum(v) == DOMAIN v = {"num", "dec"}

RECURSIVE Pow10(_)
Pow10(k) == IF k = 0 THEN 1 ELSE 10 * Pow10(k - 1)

\* The decimal m / 10^e, with trailing zero decimals dropped so that equal
\* numbers are equal values (3.50 = 3.5, -0.0 = 0).
RECURSIVE Dec(_, _)
Dec(m, e) == IF e > 0 /\ m % 10 = 0 THEN Dec(m \div 10, e - 1)
             ELSE [num |-> m, dec |-> e]
N(n) == Dec(n, 0)

NumLt(a, b) == a.num * Pow10(b.dec) < b.num * Pow10(a.dec)
NumLe(a, b) == a.num * Pow10(b.dec) <= b.num * Pow10(a.dec)

\* pandas comparisons of a numeric column with a number: NaN compares False
\* with <, <=, >, >= and True with !=.
CellLt(v, n) == IsNum(v) /\ NumLt(v, N(n))
CellGt(v, n) == IsNum(v) /\ NumLt(N(n), v)
CellLe(v, n) == IsNum(v) /\ NumLe(v, N(n))
CellGe(v, n) == IsNum(v) /\ NumLe(N(n), v)
CellNe(v, n) == v # N(n)

\* a Series is the sequence of one column's cells; a mask is a Series of booleans
SeriesLt(s, n) == [i \in DOMAIN s |-> CellLt(s[i], n)]
SeriesGt(s, n) == [i \in DOMAIN s |-> CellGt(s[i], n)]
SeriesLe(s, n) == [i \in DOMAIN s |-> CellLe(s[i], n)]
SeriesGe(s, n) == [i \in DOMAIN s |-> CellGe(s[i], n)]
SeriesNe(s, n) == [i \in DOMAIN s |-> CellNe(s[i], n)]
SeriesEq(s, v) == [i \in DOMAIN s |-> s[i] = v]
SeriesAnd(a, b) == [i \in DOMAIN a |-> a[i] /\ b[i]]

(***************************************************************************)
(* Text                                                                    *)
(***************************************************************************)
LowerCase == <<"a","b","c","d","e","f","g","h","i","j","k","l","m",
               "n","o","p","q","r","s","t","u","v","w","x","y","z">>
UpperCase == <<"A","B","C","D","E","F","G","H","I","J","K","L","M",
               "N","O","P","Q","R","S","T","U","V","W","X","Y","Z">>
Digits == <<"0","1","2","3","4","5","6","7","8","9">>

UpperChar(c) == IF \E i \in 1..26 : LowerCase[i] = c
                THEN UpperCase[CHOOSE i \in 1..26 : LowerCase[i] = c]
                ELSE c
\* str.upper()
Upper(s) == [i \in 1..Len(s) |-> UpperChar(s[i])]

IsDigit(c) == \E i \in 1..10 : Digits[i] = c
DigitVal(c) == (CHOOSE i \in 1..10 : Digits[i] = c) - 1

\* pat occurs in s starting at position i
OccursAt(pat, s, i) ==
    /\ i + Len(pat) - 1 <= Len(s)
    /\ \A k \in 1..Len(pat) : s[i + k - 1] = pat[k]

\* Python's `pat in s`, scanning the start positions left to right
RECURSIVE FindFrom(_, _, _)
FindFrom(pat, s, i) ==
    IF i + Len(pat) - 1 > Len(s) THEN FALSE
    ELSE IF OccursAt(pat, s, i) THEN TRUE
    ELSE FindFrom(pat, s, i + 1)
In(pat, s) == FindFrom(pat, s, 1)

\* str(x) of a cell: a string is itself, NaN prints as "nan"
\* (the bet and bet result cells of the model are strings or NaN)
StrOf(v) == IF IsStr(v) THEN v.str ELSE <<"n","a","n">>

\* Series.str.contains(pat, case=False, na=False) for one cell, pat without
\* regex metacharacters: a non-string cell gives NaN, which na=False makes False
StrContains(v, pat) == IsStr(v) /\ In(Upper(pat), Upper(v.str))
SeriesContains(s, pat) == [i \in DOMAIN s |-> StrContains(s[i], pat)]

(***************************************************************************)
(* extract_spread: re.search of an optional "-", digits, an optional "."   *)
(* and further digits in str(text), then float() of the match              *)
(***************************************************************************)
\* the end of the greedy \d* starting at position j (first non-digit position)
RECURSIVE SkipDigits(_, _)
SkipDigits(s, j) == IF j <= Len(s) /\ IsDigit(s[j]) THEN SkipDigits(s, j + 1) ELSE j

\* the regex tried at start position i: <<>> when it fails there, else the
\* matched text
MatchAt(s, i) ==
    LET j == IF s[i] = "-" THEN i + 1 ELSE i       \* -?  (greedy; without the
                                                  \*  "-" the \d+ fails on it)
    IN  IF j > Len(s) \/ ~IsDigit(s[j]) THEN <<>>
        ELSE LET k == SkipDigits(s, j)                             \* \d+
                 l == IF k <= Len(s) /\ s[k] = "." THEN k + 1 ELSE k  \* \.?
                 e == SkipDigits(s, l)                             \* \d*
             IN  SubSeq(s, i, e - 1)

RECURSIVE SearchFrom(_, _)
SearchFrom(s, i) ==
    IF i > Len(s) THEN <<>>
    ELSE IF MatchAt(s, i) # <<>> THEN MatchAt(s, i)
    ELSE SearchFrom(s, i + 1)

\* the digits of t[i..] read as a natural number, left to right
RECURSIVE DigitsVal(_, _, _)
DigitsVal(t, i, acc) ==
    IF i > Len(t) \/ ~IsDigit(t[i]) THEN acc
    ELSE DigitsVal(t, i + 1, 10 * acc + DigitVal(t[i]))

\* float(t) for a matched text t
ParseFloat(t) ==
    LET neg == t[1] = "-"
        b == IF neg THEN 2 ELSE 1
        k == SkipDigits(t, b)
        ip == DigitsVal(t, b, 0)
        fr == IF k <= Len(t) THEN DigitsVal(t, k + 1, 0) ELSE 0
        nd == IF k <= Len(t) THEN Len(t) - k ELSE 0
        m == ip * Pow10(nd) + fr
    IN  Dec(IF neg THEN -m ELSE m, nd)

extract_spread(text) ==
    LET m == SearchFrom(StrOf(text), 1)
    IN  IF m # <<>> THEN ParseFloat(m) ELSE N(0)

(***************************************************************************)
(* Tables (DataFrames): the set of column names and the rows in order;     *)
(* a row is its index label and its cells                                  *)
(***************************************************************************)
EmptyFrame == [cols |-> {}, rows |-> <<>>]

Cell(r, c) == r.cells[c]

\* df[c]
Column(df, c) == [i \in 1..Len(df.rows) |-> df.rows[i].cells[c]]

\* df[c] = vals, one value per row (the column is added when it is new)
SetCol(df, c, vals) ==
    [cols |-> df.cols \cup {c},
     rows |-> [i \in 1..Len(df.rows) |->
                 [idx |-> df.rows[i].idx,
                  cells |-> [k \in df.cols \cup {c} |->
                               IF k = c THEN vals[i] ELSE df.rows[i].cells[k]]]]]

\* df[c] = v, the same value in every row
SetColTo(df, c, v) == SetCol(df, c, [i \in 1..Len(df.rows) |-> v])

\* df[mask]: the rows whose mask entry is True, in order, index labels kept
Mask(df, mask) ==
    LET keep == SelectSeq([i \in 1..Len(df.rows) |-> i], LAMBDA i : mask[i])
    IN  [cols |-> df.cols, rows |-> [k \in 1..Len(keep) |-> df.rows[keep[k]]]]

IndexOf(df) == {df.rows[i].idx : i \in 1..Len(df.rows)}

(***************************************************************************)
(* load_raw_data                                                           *)
(***************************************************************************)
\* the files dict, in insertion order
ModelNames == <<"Terry Rozier", "BigMoney", "Jebron Lames">>
Sources == 1..3

\* (mutant) the existence check is left out
MissingFiles_NoCheck(st) == {}

\* os.path.exists fails
MissingFiles(st) == {i \in Sources : st[i] = "missing"}

\* pd.read_excel(path, sheet_name="in") succeeds and df["model name"] = model
Frame(sch, sheet, i) ==
    [cols |-> sch \cup {"model name"},
     rows |-> [k \in 1..Len(sheet) |->
                 [idx |-> k - 1,
                  cells |-> [c \in sch \cup {"model name"} |->
                               IF c = "model name" THEN Str(ModelNames[i])
                               ELSE sheet[k][c]]]]]

\* the frames list after the loop over files: a source whose read raises is
\* reported and skipped
RECURSIVE Frames(_, _, _, _)
Frames(st, sch, sh, i) ==
    IF i > 3 THEN <<>>
    ELSE IF st[i] = "ok" THEN <<Frame(sch, sh[i], i)>> \o Frames(st, sch, sh, i + 1)
    ELSE Frames(st, sch, sh, i + 1)

RECURSIVE ConcatRows(_)
ConcatRows(frames) ==
    IF frames = <<>> THEN <<>> ELSE Head(frames).rows \o ConcatRows(Tail(frames))

\* pd.concat(frames, ignore_index=True)
Concat(frames) ==
    LET rs == ConcatRows(frames)
    IN  [cols |-> UNION {frames[i].cols : i \in 1..Len(frames)},
         rows |-> [k \in 1..Len(rs) |-> [idx |-> k - 1, cells |-> rs[k].cells]]]

LoadErrors(st) == {[kind |-> "load", model |-> ModelNames[i]] :
                     i \in {j \in Sources : st[j] = "unreadable"}}

LoadRawData ==
    /\ pc = "start"
    /\ IF MissingFiles(status) # {}
       THEN /\ errors' = {[kind |-> "not_found", model |-> ModelNames[i]] :
                            i \in MissingFiles(status)}
            /\ pc' = "stopped"
            /\ data' = data
       ELSE LET frames == Frames(status, schema, sheets, 1)
            IN  IF frames # <<>>
                THEN /\ data' = Concat(frames)
                     /\ errors' = LoadErrors(status)
                     /\ pc' = "loaded"
                ELSE /\ errors' = LoadErrors(status) \cup
                                    {[kind |-> "no_data", model |-> "-"]}
                     /\ pc' = "stopped"
                     /\ data' = data
    /\ UNCHANGED <<status, schema, sheets, query, filtered_data, total_bets,
                   total_wins, total_losses, win_percentage, is_smart_bet>>

(***************************************************************************)
(* preprocess_data                                                         *)
(***************************************************************************)
Home == <<"H","o","m","e">>
Away == <<"A","w","a","y">>
Both == <<"B","o","t","h">>
FavoriteSpreads == <<"F","a","v","o","r","i","t","e"," ","S","p","r","e","a","d","s">>

WithBetType(df) ==
    IF "bet type" \notin df.cols
    THEN IF "spread_type" \in df.cols
         THEN SetCol(df, "bet type", Column(df, "spread_type"))
         ELSE SetColTo(df, "bet type", Str(FavoriteSpreads))
    ELSE df

infer_home_away(x) ==
    LET u == Upper(StrOf(x))
    IN  IF In(<<"H","O","M","E">>, u) THEN Str(Home)
        ELSE IF In(<<"A","W","A","Y">>, u) THEN Str(Away)
        ELSE Str(Both)

WithHomeAway(df) ==
    IF "home/away" \notin df.cols
    THEN IF "bet" \in df.cols
         THEN SetCol(df, "home/away",
                     [i \in 1..Len(df.rows) |-> infer_home_away(Column(df, "bet")[i])])
         ELSE IF "home team" \in df.cols
         THEN SetColTo(df, "home/away", Str(Home))
         ELSE SetColTo(df, "home/away", Str(Both))
    ELSE df

spread_candidates == <<"spread value", "rounded_spread", "pred_spread", "spread">>

\* (mutant) the loop without its break: the last candidate that is a column
RECURSIVE FirstCandidate_NoBreak(_, _)
FirstCandidate_NoBreak(df, i) ==
    IF i > Len(spread_candidates) THEN ""
    ELSE IF FirstCandidate_NoBreak(df, i + 1) # "" THEN FirstCandidate_NoBreak(df, i + 1)
    ELSE IF spread_candidates[i] \in df.cols THEN spread_candidates[i]
    ELSE ""

\* the loop over spread_candidates with its break: the first candidate that is
\* a column, "" (None) when there is none
RECURSIVE FirstCandidate(_, _)
FirstCandidate(df, i) ==
    IF i > Len(spread_candidates) THEN ""
    ELSE IF spread_candidates[i] \in df.cols THEN spread_candidates[i]
    ELSE FirstCandidate(df, i + 1)

\* Series.fillna(0.0)
FillNa0(s) == [i \in DOMAIN s |-> IF IsNull(s[i]) THEN N(0) ELSE s[i]]

WithAutoSpread(df) ==
    LET spread_col == FirstCandidate(df, 1)
    IN  IF spread_col # ""
        THEN SetCol(df, "auto_spread", FillNa0(Column(df, spread_col)))
        ELSE IF "bet" \in df.cols
        THEN SetCol(df, "auto_spread",
                    [i \in 1..Len(df.rows) |-> extract_spread(Column(df, "bet")[i])])
        ELSE SetColTo(df, "auto_spread", N(0))

\* the warning of the text-extraction fallback
SpreadWarning(df) ==
    IF FirstCandidate(df, 1) = "" THEN {[kind |-> "warning", model |-> "-"]} ELSE {}

WithDefault0(df, col) ==
    IF col \notin df.cols THEN SetColTo(df, col, N(0)) ELSE df

\* pd.to_numeric(errors='coerce') for one cell: a number is itself, a string
\* that is a decimal literal is its value, anything else is NaN
ToNumeric(v) ==
    IF IsNum(v) THEN v
    ELSE IF IsStr(v) /\ v.str # <<>> /\ MatchAt(v.str, 1) = v.str THEN ParseFloat(v.str)
    ELSE Null

WithWinProbability(df) ==
    IF "win probability" \in df.cols
    THEN SetCol(df, "win probability",
                FillNa0([i \in 1..Len(df.rows) |->
                            ToNumeric(Column(df, "win probability")[i])]))
    ELSE df

\* Series.astype(str) for one cell
WithBetResult(df) ==
    IF "bet result" \in df.cols
    THEN SetCol(df, "bet result",
                [i \in 1..Len(df.rows) |-> Str(StrOf(Column(df, "bet result")[i]))])
    ELSE df

preprocess_data(df) ==
    WithBetResult(WithWinProbability(WithDefault0(WithDefault0(
        WithAutoSpread(WithHomeAway(WithBetType(df))), "dtm"), "roi (%)")))

PreprocessData ==
    /\ pc = "loaded"
    /\ data' = preprocess_data(data)
    /\ errors' = errors \cup SpreadWarning(data)
    /\ pc' = "ready"
    /\ UNCHANGED <<status, schema, sheets, query, filtered_data, total_bets,
                   total_wins, total_losses, win_percentage, is_smart_bet>>

(***************************************************************************)
(* The filter pipeline of one script run.  A query is the widget values:   *)
(* model, bet_type, spread_outcome, fav_underdog, totals_outcome (each     *)
(* "None" when its selectbox is not shown), home_away, win_prob_range,     *)
(* dtm_range, include_spread.                                              *)
(***************************************************************************)
Over == <<"O","v","e","r">>
Under == <<"U","n","d","e","r">>
Win == <<"W","I","N">>

\* the characters of a selectbox option
Chars(opt) ==
    CASE opt = "Home" -> Home
      [] opt = "Away" -> Away
      [] opt = "Both" -> Both
      [] opt = "Over" -> Over
      [] opt = "Under" -> Under

\* 1) Filter by Model
FilterModel(df, q) ==
    Mask(df, SeriesEq(Column(df, "model name"), Str(q.model)))

\* (mutant) spread bets are not told from the others
FilterBetType_NoFilter(df, q) == df

\* 2) Filter by Bet Type
FilterBetType(df, q) ==
    IF q.bet_type = "OutcomeSpreadWin"
    THEN Mask(df, SeriesNe(Column(df, "auto_spread"), 0))
    ELSE df

\* 3) Filter by Home/Away
FilterHomeAway(df, q) ==
    IF q.bet_type # "OutcomeOverWin" /\ q.home_away # "Both"
    THEN Mask(df, SeriesContains(Column(df, "home/away"), Chars(q.home_away)))
    ELSE df

\* 4) Spread Outcome filter
FilterSpreadOutcome(df, q) ==
    IF q.bet_type = "OutcomeSpreadWin" /\ q.spread_outcome # "None"
    THEN IF q.spread_outcome = "Favorite"
         THEN Mask(df, SeriesLt(Column(df, "auto_spread"), 0))
         ELSE IF q.spread_outcome = "Underdog"
         THEN Mask(df, SeriesGt(Column(df, "auto_spread"), 0))
         ELSE df
    ELSE df

\* (mutant) bet is consulted for the records whose pred_total_winner is empty
FilterTotalsOutcome_PerRecord(df, q) ==
    IF q.bet_type = "OutcomeOverWin" /\ q.totals_outcome # "None"
    THEN IF "pred_total_winner" \in df.cols
         THEN Mask(df, [i \in 1..Len(df.rows) |->
                \/ StrContains(Column(df, "pred_total_winner")[i], Chars(q.totals_outcome))
                \/ /\ "bet" \in df.cols
                   /\ IsNull(Column(df, "pred_total_winner")[i])
                   /\ StrContains(Column(df, "bet")[i], Chars(q.totals_outcome))])
         ELSE IF "bet" \in df.cols
         THEN Mask(df, SeriesContains(Column(df, "bet"), Chars(q.totals_outcome)))
         ELSE df
    ELSE df

\* 5) Totals Outcome filter
FilterTotalsOutcome(df, q) ==
    IF q.bet_type = "OutcomeOverWin" /\ q.totals_outcome # "None"
    THEN IF "pred_total_winner" \in df.cols
         THEN Mask(df, SeriesContains(Column(df, "pred_total_winner"),
                                      Chars(q.totals_outcome)))
         ELSE IF "bet" \in df.cols
         THEN Mask(df, SeriesContains(Column(df, "bet"), Chars(q.totals_outcome)))
         ELSE df
    ELSE df

\* 6) Moneyline filter (reads the "win probability" column unguarded)
FilterMoneyline(df, q) ==
    IF q.bet_type = "OutcomeMoneylineWin" /\ q.fav_underdog # "None"
    THEN IF q.fav_underdog = "Favorite"
         THEN Mask(df, SeriesGt(Column(df, "win probability"), 50))
         ELSE Mask(df, SeriesLe(Column(df, "win probability"), 50))
    ELSE df

\* 7) Win Probability Range filter
FilterWinProbRange(df, q) ==
    IF "win probability" \in df.cols
    THEN Mask(df, SeriesAnd(SeriesGe(Column(df, "win probability"), q.win_prob_range[1]),
                            SeriesLe(Column(df, "win probability"), q.win_prob_range[2])))
    ELSE df

\* 8) DTM Range filter
FilterDtmRange(df, q) ==
    IF "dtm" \in df.cols
    THEN Mask(df, SeriesAnd(SeriesGe(Column(df, "dtm"), q.dtm_range[1]),
                            SeriesLe(Column(df, "dtm"), q.dtm_range[2])))
    ELSE df

\* (mutant) the spread is zeroed whatever the checkbox says
ZeroSpread_Always(df, q) == SetColTo(df, "auto_spread", N(0))

\* (mutant) the spread is never zeroed
ZeroSpread_Never(df, q) == df

\* 9) If not including spread, force auto_spread to 0
ZeroSpread(df, q) ==
    IF ~q.include_spread THEN SetColTo(df, "auto_spread", N(0)) ELSE df

\* stages 1 to 9 on a copy of df (tables are values: data.copy() is df)
FilterPipeline(df, q) ==
    ZeroSpread(FilterDtmRange(FilterWinProbRange(FilterMoneyline(
        FilterTotalsOutcome(FilterSpreadOutcome(FilterHomeAway(
            FilterBetType(FilterModel(df, q), q), q), q), q), q), q), q), q)

\* stage 6 raises KeyError before filtered_data is complete
MoneylineKeyError(df, q) ==
    /\ q.bet_type = "OutcomeMoneylineWin" /\ q.fav_underdog # "None"
    /\ "win probability" \notin df.cols

\* filtered_data["bet result"] raises KeyError
BetResultKeyError(df) == "bet result" \notin df.cols

(***************************************************************************)
(* Metrics and the smart-bet heuristic                                     *)
(***************************************************************************)
\* (mutant) the result is compared without regard to letter case
TotalWins_IgnoreCase(df) ==
    Len(SelectSeq(df.rows, LAMBDA r : Upper(Cell(r, "bet result").str) = Win))

\* value_counts().get("WIN", 0): the number of rows whose cell is "WIN"
TotalWins(df) ==
    Len(SelectSeq(df.rows, LAMBDA r : Cell(r, "bet result") = Str(Win)))

TotalLosses(bets, wins) == bets - wins

\* wins / bets * 100, kept as the exact fraction num / den
WinPercentage(bets, wins) ==
    IF bets > 0 THEN [num |-> wins * 100, den |-> bets] ELSE [num |-> 0, den |-> 1]

PctGe(p, t) == p.num >= t * p.den

RECURSIVE MaxDec(_)
MaxDec(rows) ==
    IF rows = <<>> THEN 0
    ELSE LET m == MaxDec(Tail(rows))
             d == Cell(Head(rows), "roi (%)").dec
         IN  IF d > m THEN d ELSE m

RECURSIVE SumRoi(_, _)
SumRoi(rows, k) ==
    IF rows = <<>> THEN 0
    ELSE Cell(Head(rows), "roi (%)").num * Pow10(k - Cell(Head(rows), "roi (%)").dec)
         + SumRoi(Tail(rows), k)

\* (mutant) the mean must exceed the threshold
RoiMeanGe_Exclusive(df, t) ==
    LET vals == SelectSeq(df.rows, LAMBDA r : IsNum(Cell(r, "roi (%)")))
        k == MaxDec(vals)
    IN  /\ vals # <<>>
        /\ SumRoi(vals, k) > t * Len(vals) * Pow10(k)

\* filtered_data["roi (%)"].mean() >= 10: the mean skips NaN cells and is NaN,
\* which compares False, when no cell is left
RoiMeanGe(df, t) ==
    LET vals == SelectSeq(df.rows, LAMBDA r : IsNum(Cell(r, "roi (%)")))
        k == MaxDec(vals)
    IN  /\ vals # <<>>
        /\ SumRoi(vals, k) >= t * Len(vals) * Pow10(k)

\* (mutant) the 60% threshold is exclusive
SmartSpreadOrOver_Exclusive(bets, pct) ==
    IF bets >= 10 /\ pct.num > 60 * pct.den THEN TRUE
    ELSE IF 4 <= bets /\ bets < 10 /\ PctGe(pct, 70) THEN TRUE
    ELSE FALSE

SmartSpreadOrOver(bets, pct) ==
    IF bets >= 10 /\ PctGe(pct, 60) THEN TRUE
    ELSE IF 4 <= bets /\ bets < 10 /\ PctGe(pct, 70) THEN TRUE
    ELSE FALSE

SmartMoneyline(df, q, pct) ==
    IF q.fav_underdog = "Underdog"
    THEN PctGe(pct, 50) \/ RoiMeanGe(df, 10)
    ELSE IF q.fav_underdog = "Favorite"
    THEN PctGe(pct, 65) \/ RoiMeanGe(df, 10)
    ELSE FALSE

IsSmartBet(df, q, bets, pct) ==
    IF q.bet_type \in {"OutcomeSpreadWin", "OutcomeOverWin"}
    THEN SmartSpreadOrOver(bets, pct)
    ELSE IF q.bet_type = "OutcomeMoneylineWin"
    THEN SmartMoneyline(df, q, pct)
    ELSE FALSE

\* st.selectbox("Model Name", options=sorted(data["model name"].unique())):
\* the model is one of the stored records' models, None when there is none
ModelOptions(df) ==
    IF df.rows = <<>> THEN {"None"}
    ELSE {Column(df, "model name")[i].str : i \in 1..Len(df.rows)}

\* the widgets before the script has read them
NoQuery == [model |-> "None", bet_type |-> "None", spread_outcome |-> "None",
            fav_underdog |-> "None", totals_outcome |-> "None",
            home_away |-> "Both", win_prob_range |-> <<0, 100>>,
            dtm_range |-> <<-100, 100>>, include_spread |-> TRUE]

\* The script body after the widgets hold q: filter, metrics and label.  A
\* KeyError ends the run without results.
Evaluate(q) ==
    /\ pc = "ready"
    /\ q.model \in ModelOptions(data)
    /\ query' = q
    /\ IF MoneylineKeyError(data, q)
       THEN /\ pc' = "crashed"
            /\ UNCHANGED <<filtered_data, total_bets, total_wins, total_losses,
                           win_percentage, is_smart_bet>>
       ELSE /\ filtered_data' = FilterPipeline(data, q)
            /\ total_bets' = Len(filtered_data'.rows)
            /\ IF BetResultKeyError(filtered_data')
               THEN /\ pc' = "crashed"
                    /\ UNCHANGED <<total_wins, total_losses, win_percentage,
                                   is_smart_bet>>
               ELSE /\ pc' = "evaluated"
                    /\ total_wins' = TotalWins(filtered_data')
                    /\ total_losses' = TotalLosses(total_bets', total_wins')
                    /\ win_percentage' = WinPercentage(total_bets', total_wins')
                    /\ is_smart_bet' = IsSmartBet(filtered_data', q, total_bets',
                                                  win_percentage')
    /\ UNCHANGED <<status, schema, sheets, data, errors>>

\* Streamlit runs the script again from the top on the next interaction:
\* every script variable is rebuilt from the files
Rerun ==
    /\ pc \in {"stopped", "evaluated", "crashed"}
    /\ pc' = "start"
    /\ data' = EmptyFrame
    /\ query' = NoQuery
    /\ filtered_data' = EmptyFrame
    /\ total_bets' = 0
    /\ total_wins' = 0
    /\ total_losses' = 0
    /\ win_percentage' = [num |-> 0, den |-> 1]
    /\ is_smart_bet' = FALSE
    /\ errors' = {}
    /\ UNCHANGED <<status, schema, sheets>>

(***************************************************************************)
(* The widgets: the queries a user can select                              *)
(***************************************************************************)
\* spread_outcome, fav_underdog and totals_outcome are None unless the bet
\* type shows their selectbox; home_away stays "Both" for OutcomeOverWin
SpreadQueries(models, outcomes, has, wprs, drs, incs) ==
    {[model |-> m, bet_type |-> "OutcomeSpreadWin", spread_outcome |-> o,
      fav_underdog |-> "None", totals_outcome |-> "None", home_away |-> h,
      win_prob_range |-> w, dtm_range |-> d, include_spread |-> i] :
        m \in models, o \in outcomes, h \in has, w \in wprs, d \in drs, i \in incs}

MoneylineQueries(models, favs, has, wprs, drs, incs) ==
    {[model |-> m, bet_type |-> "OutcomeMoneylineWin", spread_outcome |-> "None",
      fav_underdog |-> f, totals_outcome |-> "None", home_away |-> h,
      win_prob_range |-> w, dtm_range |-> d, include_spread |-> i] :
        m \in models, f \in favs, h \in has, w \in wprs, d \in drs, i \in incs}

OverQueries(models, totals, wprs, drs, incs) ==
    {[model |-> m, bet_type |-> "OutcomeOverWin", spread_outcome |-> "None",
      fav_underdog |-> "None", totals_outcome |-> t, home_away |-> "Both",
      win_prob_range |-> w, dtm_range |-> d, include_spread |-> i] :
        m \in models, t \in totals, w \in wprs, d \in drs, i \in incs}

(***************************************************************************)
(* Inputs: the three files' state and sheets                               *)
(***************************************************************************)
RawCols == {"bet type", "spread_type", "home/away", "bet", "home team",
            "spread value", "rounded_spread", "pred_spread", "spread", "dtm",
            "roi (%)", "win probability", "bet result", "pred_total_winner"}

Loss == <<"L","O","S","S">>
BetHome == <<"H","O","M","E"," ","-","3",".","5">>

\* a row's cells when nothing else is said
BaseCells ==
    [c \in RawCols |->
        CASE c \in {"bet type", "spread_type"} -> Str(FavoriteSpreads)
          [] c = "home/away" -> Str(Home)
          [] c = "bet" -> Str(BetHome)
          [] c = "home team" -> Str(<<"N","Y","K">>)
          [] c = "spread value" -> N(-3)
          [] c = "rounded_spread" -> N(4)
          [] c = "pred_spread" -> Dec(-15, 1)
          [] c = "spread" -> N(2)
          [] c = "dtm" -> N(5)
          [] c = "roi (%)" -> N(0)
          [] c = "win probability" -> N(55)
          [] c = "bet result" -> Str(Win)
          [] c = "pred_total_winner" -> Str(Over)]

\* the sheet row over columns cols whose cells are ov where it says, else the base
Row(cols, ov) == [c \in cols |-> IF c \in DOMAIN ov THEN ov[c] ELSE BaseCells[c]]

SeqsUpTo(S, n) == UNION {[1..k -> S] : k \in 0..n}

AllOk == <<"ok", "ok", "ok">>

InitWith(st, sch, sh) ==
    /\ pc = "start"
    /\ status = st
    /\ schema = sch
    /\ sheets = sh
    /\ data = EmptyFrame
    /\ query = NoQuery
    /\ filtered_data = EmptyFrame
    /\ total_bets = 0
    /\ total_wins = 0
    /\ total_losses = 0
    /\ win_percentage = [num |-> 0, den |-> 1]
    /\ is_smart_bet = FALSE
    /\ errors = {}

(***************************************************************************)
(* SpecLoad: every combination of missing, unreadable and readable files   *)
(***************************************************************************)
MaxLoadRows == 1

LoadSchema == {"spread value", "home/away", "win probability", "dtm",
               "roi (%)", "bet result"}
LoadRows == {Row(LoadSchema, <<>>),
             Row(LoadSchema, "win probability" :> N(40) @@ "bet result" :> Str(Loss))}
Statuses == [Sources -> {"ok", "missing", "unreadable"}]

InitLoad ==
    \E st \in Statuses, sh \in [Sources -> SeqsUpTo(LoadRows, MaxLoadRows)] :
        /\ \A i \in Sources : st[i] # "ok" => sh[i] = <<>>
        /\ InitWith(st, LoadSchema, sh)

LoadQueries ==
    MoneylineQueries({"Terry Rozier", "BigMoney", "Jebron Lames", "None"},
                     {"Favorite"}, {"Both"}, {<<0, 100>>}, {<<-100, 100>>}, {TRUE})
    \cup OverQueries({"BigMoney", "None"}, {"Over"}, {<<0, 100>>}, {<<-100, 100>>}, {TRUE})

NextLoad == LoadRawData \/ PreprocessData \/ Rerun \/ \E q \in LoadQueries : Evaluate(q)

SpecLoad == InitLoad /\ [][NextLoad]_vars

\* the sources that exist and can be read
Readable == {i \in Sources : status[i] = "ok"}

\* the model name and raw cells of every row of the readable sources, in
\* the order of the files
RECURSIVE ReadableRecords(_)
ReadableRecords(i) ==
    IF i > 3 THEN <<>>
    ELSE (IF status[i] = "ok"
          THEN [k \in 1..Len(sheets[i]) |-> <<ModelNames[i], sheets[i][k]>>]
          ELSE <<>>) \o ReadableRecords(i + 1)

\* the model name of every stored row and, while the table is still raw, its cells
StoredRecords ==
    [k \in 1..Len(data.rows) |->
        <<Cell(data.rows[k], "model name").str,
          IF pc = "loaded" THEN [c \in schema |-> Cell(data.rows[k], c)]
          ELSE ReadableRecords(1)[k][2]>>]

Proceeds ==
    /\ pc \in {"loaded", "ready", "evaluated", "crashed"}
    /\ Len(data.rows) = Len(ReadableRecords(1))
    /\ StoredRecords = ReadableRecords(1)

Halted ==
    /\ pc = "stopped"
    /\ errors # {}
    /\ data = EmptyFrame /\ filtered_data = EmptyFrame /\ query = NoQuery

\* C2 as stated: whenever at least one source can be loaded the session
\* proceeds with the records of the loadable sources, and it halts only when
\* no source can be loaded.
C2_PartialSuccessAlways ==
    pc # "start" => IF Readable # {} THEN Proceeds ELSE Halted

\* C2 amended: the session halts when any configured file is missing or when
\* no file can be read; when every file exists and at least one can be read,
\* the unreadable ones are skipped (each reported) and the session proceeds
\* with the records of the readable ones.
C2_HaltsOnAnyMissingElsePartial ==
    pc # "start" =>
        IF (\A i \in Sources : status[i] # "missing") /\ Readable # {}
        THEN /\ Proceeds
             /\ \A i \in Sources : status[i] = "unreadable" =>
                    [kind |-> "load", model |-> ModelNames[i]] \in errors
        ELSE Halted

\* an unreadable file was skipped and the rest evaluated
C2_Witness ==
    /\ pc = "evaluated"
    /\ \E i \in Sources : status[i] = "unreadable"
    /\ total_bets > 0

(***************************************************************************)
(* SpecFields: sheets that lack canonical columns or hold empty or         *)
(* unparsable cells in them                                                *)
(***************************************************************************)
MaxFieldRows == 2

OptionalFields == {"win probability", "dtm", "roi (%)", "bet result"}
FieldSchemas == {{"spread value"} \cup S : S \in SUBSET OptionalFields}

FieldRows(sch) ==
    {Row(sch, "win probability" :> w @@ "dtm" :> d @@ "roi (%)" :> d @@ "bet result" :> b) :
        w \in {N(55), Str(<<"6","0">>), Str(<<"n","/","a">>), Null},
        d \in {N(5), Null},
        b \in {Str(Win), Null}}

\* the sheet of the first file holds the rows; the other two are empty sheets
OnlyFirst(rows) == <<rows, <<>>, <<>>>>

InitFields ==
    \E sch \in FieldSchemas :
        \E rows \in SeqsUpTo(FieldRows(sch), MaxFieldRows) :
            InitWith(AllOk, sch, OnlyFirst(rows))

FieldQueries ==
    MoneylineQueries({"Terry Rozier", "None"}, {"Favorite"}, {"Both"}, {<<0, 100>>},
                     {<<-100, 100>>}, {TRUE})
    \cup SpreadQueries({"Terry Rozier", "None"}, {"Both"}, {"Both"}, {<<0, 100>>},
                       {<<-100, 100>>}, {TRUE})

NextFields == LoadRawData \/ PreprocessData \/ Rerun \/ \E q \in FieldQueries : Evaluate(q)

SpecFields == InitFields /\ [][NextFields]_vars

Normalized == pc \in {"ready", "evaluated", "crashed"}

CanonicalFields == {"model name", "bet type", "home/away", "auto_spread",
                    "win probability", "dtm", "roi (%)", "bet result"}

\* C3: the normalized table contains all canonical fields and, in every
\* record, auto_spread, win probability, dtm and roi (%) are numbers.
C3_NormalizedComplete ==
    Normalized =>
        /\ CanonicalFields \subseteq data.cols
        /\ \A k \in 1..Len(data.rows) :
              \A c \in {"auto_spread", "win probability", "dtm", "roi (%)"} :
                  IsNum(Cell(data.rows[k], c))

(***************************************************************************)
(* SpecSpread: every choice of spread columns, with and without bet        *)
(***************************************************************************)
MaxSpreadRows == 2

SpreadCols == {"spread value", "rounded_spread", "pred_spread", "spread"}
SpreadSchemas ==
    {{"win probability", "bet result"} \cup S \cup B :
        S \in SUBSET SpreadCols, B \in {{}, {"bet"}}}

BetTexts ==
    {Null, Str(BetHome),
     Str(<<"a","w","a","y"," ","1","2",".">>),
     Str(<<"x","-",".","5">>),
     Str(<<"O","v","e","r">>),
     Str(<<"-","0">>),
     Str(<<"u","-","0","7",".","2","5","0","-","1">>)}

\* each spread cell is empty or the column's own number; bet varies where it
\* is the only source
SpreadRows(sch) ==
    {[c \in sch |-> IF c \in SpreadCols THEN (IF c \in nulls THEN Null ELSE BaseCells[c])
                    ELSE IF c = "bet" THEN b
                    ELSE BaseCells[c]] :
        nulls \in SUBSET (sch \cap SpreadCols),
        b \in IF sch \cap SpreadCols = {} THEN BetTexts ELSE {Str(BetHome)}}

InitSpread ==
    \E sch \in SpreadSchemas :
        \E rows \in SeqsUpTo(SpreadRows(sch), MaxSpreadRows) :
            InitWith(AllOk, sch, OnlyFirst(rows))

SpreadSpecQueries ==
    SpreadQueries({"Terry Rozier", "None"}, {"Both"}, {"Both"}, {<<0, 100>>},
                  {<<-100, 100>>}, {TRUE})

NextSpread == LoadRawData \/ PreprocessData \/ Rerun \/ \E q \in SpreadSpecQueries : Evaluate(q)

SpecSpread == InitSpread /\ [][NextSpread]_vars

\* t[i..j] is an optional "-", one or more digits, an optional "." and digits
IsNumberToken(t, i, j) ==
    LET b == IF t[i] = "-" THEN i + 1 ELSE i
    IN  /\ b <= j /\ IsDigit(t[b])
        /\ \A k \in b..j : IsDigit(t[k]) \/ t[k] = "."
        /\ Cardinality({k \in b..j : t[k] = "."}) <= 1

\* the value of a number token: its digits as an integer, scaled by the
\* number of digits after the "."
TokenValue(tok) ==
    LET ds == SelectSeq(tok, IsDigit)
        dots == {k \in 1..Len(tok) : tok[k] = "."}
        e == IF dots = {} THEN 0 ELSE Len(tok) - (CHOOSE k \in dots : TRUE)
        RECURSIVE Val(_)
        Val(n) == IF n = 0 THEN 0 ELSE 10 * Val(n - 1) + DigitVal(ds[n])
        m == Val(Len(ds))
    IN  Dec(IF tok[1] = "-" THEN -m ELSE m, e)

\* the first signed decimal number in a text (leftmost, longest), 0.0 if none
FirstNumber(v) ==
    LET t == IF IsStr(v) THEN v.str ELSE <<>>
        starts == {i \in 1..Len(t) : \E j \in i..Len(t) : IsNumberToken(t, i, j)}
    IN  IF starts = {} THEN N(0)
        ELSE LET i == CHOOSE x \in starts : \A y \in starts : x <= y
                 j == CHOOSE x \in i..Len(t) :
                        /\ IsNumberToken(t, i, x)
                        /\ \A y \in i..Len(t) : IsNumberToken(t, i, y) => y <= x
             IN  TokenValue(SubSeq(t, i, j))

\* C8: auto_spread of every record comes from the first spread column the
\* table has, in the order spread value, rounded_spread, pred_spread, spread
\* (0.0 where its cell is empty); from the first number in bet only when the
\* table has none of the four (0.0 if none); 0.0 when bet is absent too.
C8_AutoSpreadSource ==
    Normalized =>
        \A k \in 1..Len(data.rows) :
            LET raw == ReadableRecords(1)[k][2]
                auto == Cell(data.rows[k], "auto_spread")
                have == {i \in 1..4 : spread_candidates[i] \in schema}
            IN  IF have # {}
                THEN LET c == spread_candidates[CHOOSE i \in have : \A j \in have : i <= j]
                     IN  auto = IF raw[c] = Null THEN N(0) ELSE raw[c]
                ELSE IF "bet" \in schema
                THEN auto = FirstNumber(raw["bet"])
                ELSE auto = N(0)

\* a record whose first present spread column is empty gets 0.0 although a
\* later spread column and bet hold numbers
C8_Witness ==
    /\ Normalized
    /\ "spread value" \notin schema /\ "rounded_spread" \in schema
    /\ "spread" \in schema /\ "bet" \in schema
    /\ \E k \in 1..Len(data.rows) :
          /\ ReadableRecords(1)[k][2]["rounded_spread"] = Null
          /\ ReadableRecords(1)[k][2]["spread"] = N(2)
          /\ Cell(data.rows[k], "auto_spread") = N(0)

(***************************************************************************)
(* SpecFilter: records of two models that differ in spread sign, home/away,*)
(* win probability and dtm, under spread, moneyline and totals queries     *)
(***************************************************************************)
MaxFilterRows == 2

FilterSchema == {"spread value", "home/away", "win probability", "dtm", "bet result"}

\* favorites and underdogs, home and away, inside and outside the narrowed
\* ranges, and one record without spread
FilterRows ==
    {Row(FilterSchema, "spread value" :> sp @@ "home/away" :> ha
                       @@ "win probability" :> wd[1] @@ "dtm" :> wd[2]) :
        sp \in {N(-3), N(2)},
        ha \in {Str(Home), Str(<<"a","w","a","y">>)},
        wd \in {<<N(60), N(5)>>, <<N(40), N(5)>>, <<N(60), N(-20)>>}}
    \cup {Row(FilterSchema, "spread value" :> Null)}

\* the second file always holds one record, the third an empty sheet
FirstAndSecond(rows) == <<rows, <<Row(FilterSchema, <<>>)>>, <<>>>>

InitFilter ==
    \E rows \in SeqsUpTo(FilterRows, MaxFilterRows) :
        InitWith(AllOk, FilterSchema, FirstAndSecond(rows))

Ranges == {<<(<<0, 100>>), (<<-100, 100>>)>>, <<(<<50, 100>>), (<<-100, 100>>)>>,
           <<(<<0, 100>>), (<<0, 100>>)>>}

FilterQueries ==
    UNION {SpreadQueries({"Terry Rozier", "None"}, {"Favorite", "Underdog", "Both"},
                         {"Home", "Both"}, {r[1]}, {r[2]}, {TRUE}) : r \in Ranges}
    \cup SpreadQueries({"Terry Rozier", "None"}, {"Favorite", "Underdog", "Both"},
                       {"Home", "Both"}, {<<50, 100>>}, {<<-100, 100>>}, {FALSE})
    \cup MoneylineQueries({"Terry Rozier", "None"}, {"Favorite", "Underdog"}, {"Away"},
                          {<<0, 100>>}, {<<0, 100>>}, {TRUE, FALSE})
    \cup OverQueries({"BigMoney", "Terry Rozier"}, {"Over"}, {<<50, 100>>},
                     {<<-100, 100>>}, {FALSE})

NextFilter == LoadRawData \/ PreprocessData \/ Rerun \/ \E q \in FilterQueries : Evaluate(q)

SpecFilter == InitFilter /\ [][NextFilter]_vars

\* C1 as stated: filtering the filter output again with the same query
\* gives the same records.
C1_Idempotent ==
    pc = "evaluated" => FilterPipeline(filtered_data, query) = filtered_data

\* C1 amended: filtering is idempotent for every query with include_spread
\* true or a bet type other than OutcomeSpreadWin; for OutcomeSpreadWin with
\* include_spread false every output record has auto_spread 0.0, so filtering
\* the output again gives the empty set.
C1_IdempotentUnlessSpreadExcluded ==
    pc = "evaluated" =>
        IF query.bet_type = "OutcomeSpreadWin" /\ ~query.include_spread
        THEN FilterPipeline(filtered_data, query).rows = <<>>
        ELSE FilterPipeline(filtered_data, query) = filtered_data

\* a spread query that includes the spread kept some of the model's records
\* and dropped others
C1_Witness ==
    /\ pc = "evaluated"
    /\ query.bet_type = "OutcomeSpreadWin" /\ query.include_spread
    /\ Len(filtered_data.rows) > 0
    /\ Len(filtered_data.rows) < Len(sheets[1])

\* the auto_spread normalization gave the record of a file with a
\* "spread value" column
OriginalSpread(raw) == IF raw["spread value"] = Null THEN N(0) ELSE raw["spread value"]

\* C4: with include_spread false every output record has auto_spread 0.0;
\* the stored table stays the normalized table, each stored record with its
\* original auto_spread.
C4_SpreadExclusionOutputOnly ==
    pc = "evaluated" =>
        /\ ~query.include_spread =>
              \A k \in 1..Len(filtered_data.rows) :
                  Cell(filtered_data.rows[k], "auto_spread") = N(0)
        /\ data = preprocess_data(Concat(Frames(status, schema, sheets, 1)))
        /\ \A raw \in {ReadableRecords(1)} : \A k \in 1..Len(data.rows) :
              Cell(data.rows[k], "auto_spread") = OriginalSpread(raw[k][2])

\* an output record reports 0.0 while its stored record has a nonzero spread
C4_Witness ==
    /\ pc = "evaluated" /\ ~query.include_spread
    /\ \E k \in 1..Len(filtered_data.rows) : \E j \in 1..Len(data.rows) :
          /\ data.rows[j].idx = filtered_data.rows[k].idx
          /\ Cell(data.rows[j], "auto_spread") # N(0)
          /\ Cell(filtered_data.rows[k], "auto_spread") = N(0)

\* the index labels the pipeline selects from the stored table when the
\* query's spread outcome is o
Selected(o) == IndexOf(FilterPipeline(data, [query EXCEPT !.spread_outcome = o]))

\* C10: for OutcomeSpreadWin the records selected for Favorite and for
\* Underdog are disjoint and together are the records selected for Both, and
\* no selected record has auto_spread 0.
C10_FavoriteUnderdogPartitionBoth ==
    (pc = "evaluated" /\ query.bet_type = "OutcomeSpreadWin") =>
        \A fav \in {Selected("Favorite")}, und \in {Selected("Underdog")},
           both \in {Selected("Both")} :
            /\ IndexOf(filtered_data) =
                  (CASE query.spread_outcome = "Favorite" -> fav
                     [] query.spread_outcome = "Underdog" -> und
                     [] query.spread_outcome = "Both" -> both)
            /\ fav \cap und = {}
            /\ fav \cup und = both
            /\ \A k \in 1..Len(data.rows) :
                  data.rows[k].idx \in both =>
                      Cell(data.rows[k], "auto_spread") # N(0)

\* Both selected two records, one of them a favorite and one an underdog
C10_Witness ==
    /\ pc = "evaluated" /\ query.bet_type = "OutcomeSpreadWin"
    /\ query.spread_outcome = "Both"
    /\ Len(filtered_data.rows) = 2
    /\ Selected("Favorite") # {} /\ Selected("Underdog") # {}

(***************************************************************************)
(* SpecTotals: totals queries over sheets with and without the             *)
(* pred_total_winner and bet columns                                       *)
(***************************************************************************)
MaxTotalsRows == 2

TotalsSchemas ==
    {{"spread value", "win probability", "bet result"} \cup P :
        P \in SUBSET {"pred_total_winner", "bet"}}

TotalsRows(sch) ==
    {Row(sch, "pred_total_winner" :> p @@ "bet" :> b) :
        p \in {Str(Over), Str(<<"U","N","D","E","R">>), Null},
        b \in {Str(<<"o","v","e","r"," ","7">>), Str(<<"H","O","M","E"," ","u","n","d","e","r">>), Null}}

InitTotals ==
    \E sch \in TotalsSchemas :
        \E rows \in SeqsUpTo(TotalsRows(sch), MaxTotalsRows) :
            InitWith(AllOk, sch, OnlyFirst(rows))

TotalsQueries ==
    OverQueries({"Terry Rozier", "None"}, {"Over", "Under"}, {<<0, 100>>},
                {<<-100, 100>>}, {TRUE})

NextTotals == LoadRawData \/ PreprocessData \/ Rerun \/ \E q \in TotalsQueries : Evaluate(q)

SpecTotals == InitTotals /\ [][NextTotals]_vars

\* the cell is a string that contains pat, letter case ignored
ContainsIgnoringCase(v, pat) ==
    /\ v # Null
    /\ \E o \in 0..(Len(v.str) - Len(pat)) :
          \A k \in 1..Len(pat) : UpperChar(v.str[o + k]) = UpperChar(pat[k])

\* C9: for OutcomeOverWin, when the table has pred_total_winner a record is
\* kept iff that value is non-null and contains the outcome (case ignored);
\* bet is tested only when the table has no pred_total_winner; with neither
\* column every record is kept.
C9_TotalsOutcomeStage ==
    (pc = "evaluated" /\ query.bet_type = "OutcomeOverWin") =>
        \A raw \in {ReadableRecords(1)} :
            IndexOf(filtered_data) =
                {k - 1 : k \in {j \in 1..Len(raw) :
                    IF "pred_total_winner" \in schema
                    THEN ContainsIgnoringCase(raw[j][2]["pred_total_winner"],
                                              Chars(query.totals_outcome))
                    ELSE IF "bet" \in schema
                    THEN ContainsIgnoringCase(raw[j][2]["bet"], Chars(query.totals_outcome))
                    ELSE TRUE}}

\* a record with an empty pred_total_winner is dropped although its bet
\* text contains the outcome
C9_Witness ==
    /\ pc = "evaluated" /\ query.bet_type = "OutcomeOverWin"
    /\ query.totals_outcome = "Over"
    /\ {"pred_total_winner", "bet"} \subseteq schema
    /\ \E k \in 1..Len(data.rows) :
          /\ Cell(data.rows[k], "pred_total_winner") = Null
          /\ Cell(data.rows[k], "bet") = Str(<<"o","v","e","r"," ","7">>)
          /\ data.rows[k].idx \notin IndexOf(filtered_data)
    /\ filtered_data.rows # <<>>

(***************************************************************************)
(* SpecMetrics: records whose bet result is WIN, win, LOSS or empty, under *)
(* the three bet types                                                     *)
(***************************************************************************)
MaxMetricRows == 3

MetricSchema == {"spread value", "win probability", "bet result"}

MetricRows ==
    {Row(MetricSchema, "win probability" :> w @@ "bet result" :> b) :
        w \in {N(40), N(60)},
        b \in {Str(Win), Str(<<"w","i","n">>), Str(Loss), Null}}

InitMetrics ==
    \E rows \in SeqsUpTo(MetricRows, MaxMetricRows) :
        InitWith(AllOk, MetricSchema, OnlyFirst(rows))

MetricQueries ==
    SpreadQueries({"Terry Rozier", "None"}, {"Both"}, {"Both"}, {<<0, 100>>, <<50, 100>>},
                  {<<-100, 100>>}, {TRUE})
    \cup MoneylineQueries({"Terry Rozier", "None"}, {"Favorite", "Underdog"}, {"Both"},
                          {<<0, 100>>}, {<<-100, 100>>}, {TRUE})
    \cup OverQueries({"Terry Rozier", "None"}, {"Over"}, {<<0, 100>>},
                     {<<-100, 100>>}, {TRUE})

NextMetrics == LoadRawData \/ PreprocessData \/ Rerun \/ \E q \in MetricQueries : Evaluate(q)

SpecMetrics == InitMetrics /\ [][NextMetrics]_vars

\* the positions of the filtered records whose bet result is exactly "WIN"
WinningRecords ==
    {k \in 1..Len(filtered_data.rows) :
        Cell(filtered_data.rows[k], "bet result") = Str(<<"W","I","N">>)}

\* C5: total is the number of filtered records, wins the number of them whose
\* bet result is exactly "WIN", losses = total - wins, 0 <= wins <= total,
\* and win_percentage = wins / total * 100, or 0 when total is 0.
C5_Statistics ==
    pc = "evaluated" =>
        /\ total_bets = Len(filtered_data.rows)
        /\ total_wins = Cardinality(WinningRecords)
        /\ total_losses = total_bets - total_wins
        /\ total_wins + total_losses = total_bets
        /\ 0 <= total_wins /\ total_wins <= total_bets
        /\ IF total_bets > 0
           THEN win_percentage.num * total_bets = total_wins * 100 * win_percentage.den
           ELSE win_percentage.num = 0
        /\ win_percentage.den > 0

\* a subset with a WIN, a lower-case win and another result
C5_Witness ==
    /\ pc = "evaluated"
    /\ total_bets = 3 /\ total_wins = 1 /\ total_losses = 2
    /\ \E k \in 1..3 : Cell(filtered_data.rows[k], "bet result") = Str(<<"w","i","n">>)

(***************************************************************************)
(* SpecSmart: spread or totals records, each won or lost                   *)
(***************************************************************************)
MaxSmartRows == 11

SmartRows == {Row(MetricSchema, "bet result" :> b) : b \in {Str(Win), Str(Loss)}}

InitSmart ==
    \E rows \in SeqsUpTo(SmartRows, MaxSmartRows) :
        InitWith(AllOk, MetricSchema, OnlyFirst(rows))

SmartQueries ==
    SpreadQueries({"Terry Rozier", "None"}, {"Both"}, {"Both"}, {<<0, 100>>},
                  {<<-100, 100>>}, {TRUE})
    \cup OverQueries({"Terry Rozier", "None"}, {"Over"}, {<<0, 100>>}, {<<-100, 100>>}, {TRUE})

NextSmart == LoadRawData \/ PreprocessData \/ Rerun \/ \E q \in SmartQueries : Evaluate(q)

SpecSmart == InitSmart /\ [][NextSmart]_vars

\* C6: for OutcomeSpreadWin and OutcomeOverWin the label is smart iff
\* (total >= 10 and win rate >= 60%) or (4 <= total < 10 and win rate >= 70%);
\* never with fewer than 4 records.
C6_SmartSpreadOver ==
    (pc = "evaluated" /\ query.bet_type \in {"OutcomeSpreadWin", "OutcomeOverWin"}) =>
        \A total \in {Len(filtered_data.rows)}, wins \in {Cardinality(WinningRecords)} :
            /\ is_smart_bet <=>
                  \/ total >= 10 /\ wins * 100 >= 60 * total
                  \/ 4 <= total /\ total < 10 /\ wins * 100 >= 70 * total
            /\ total < 4 => ~is_smart_bet

\* 10 records with 6 wins are smart
C6_Witness ==
    /\ pc = "evaluated" /\ query.bet_type = "OutcomeSpreadWin"
    /\ total_bets = 10 /\ total_wins = 6
    /\ is_smart_bet

(***************************************************************************)
(* SpecMoneyline: moneyline queries over records that differ in result,    *)
(* roi (%) and win probability                                             *)
(***************************************************************************)
MaxMoneyRows == 3

MoneySchema == {"spread value", "win probability", "roi (%)", "bet result"}

MoneyRows ==
    {Row(MoneySchema, "win probability" :> w @@ "roi (%)" :> r @@ "bet result" :> b) :
        w \in {N(40), N(60)},
        r \in {N(0), N(20), Null},
        b \in {Str(Win), Str(Loss)}}

InitMoneyline ==
    \E rows \in SeqsUpTo(MoneyRows, MaxMoneyRows) :
        InitWith(AllOk, MoneySchema, OnlyFirst(rows))

MoneySpecQueries ==
    MoneylineQueries({"Terry Rozier", "None"}, {"Favorite", "Underdog"}, {"Both"},
                     {<<0, 100>>}, {<<-100, 100>>}, {TRUE})

NextMoneyline == LoadRawData \/ PreprocessData \/ Rerun \/ \E q \in MoneySpecQueries : Evaluate(q)

SpecMoneyline == InitMoneyline /\ [][NextMoneyline]_vars

\* the positions of the filtered records that have a roi (%) value
RoiRecords ==
    {k \in 1..Len(filtered_data.rows) : Cell(filtered_data.rows[k], "roi (%)") # Null}

\* the sum, in hundredths, of roi (%) over the positions S
RECURSIVE RoiHundredths(_)
RoiHundredths(S) ==
    IF S = {} THEN 0
    ELSE LET k == CHOOSE x \in S : TRUE
             v == Cell(filtered_data.rows[k], "roi (%)")
         IN  v.num * Pow10(2 - v.dec) + RoiHundredths(S \ {k})

\* C7: for OutcomeMoneylineWin the label is smart iff the win rate is at
\* least T (50 for Underdog, 65 for Favorite) or the mean roi (%) of the
\* filtered records is at least 10; an empty subset is not smart.
C7_SmartMoneyline ==
    (pc = "evaluated" /\ query.bet_type = "OutcomeMoneylineWin") =>
        \A total \in {Len(filtered_data.rows)}, wins \in {Cardinality(WinningRecords)},
           t \in {IF query.fav_underdog = "Underdog" THEN 50 ELSE 65} :
            /\ is_smart_bet <=>
                  \/ total > 0 /\ wins * 100 >= t * total
                  \/ RoiRecords # {} /\
                     RoiHundredths(RoiRecords) >= 10 * 100 * Cardinality(RoiRecords)
            /\ total = 0 => ~is_smart_bet

\* underdogs winning less than half the time are smart by their mean roi
C7_Witness ==
    /\ pc = "evaluated" /\ query.bet_type = "OutcomeMoneylineWin"
    /\ query.fav_underdog = "Underdog"
    /\ total_bets >= 2 /\ total_wins * 2 < total_bets
    /\ is_smart_bet

====
